---- MODULE Spec2Model ----
(***************************************************************************)
(* Model of the Splyt backend: SplitService.createSplit running as         *)
(* concurrent request handlers over the `splits` and `users` collections,  *)
(* and the instance methods of a split document.                           *)
(*                                                                         *)
(* Amounts are integers of the smallest unit (0.01 = 1).  A wallet address *)
(* is a record [id, upper, ok]: `id` names the 20 bytes, `upper` says the  *)
(* hex digits contain upper-case letters, `ok` says the text matches       *)
(* /^0x[a-fA-F0-9]{40}$/.  A Date is 0 (undefined) or 1 (set).             *)
(***************************************************************************)
EXTENDS Integers, Sequences, FiniteSets, TLC

\* ---------------------------------------------------------------- bounds
NumTxHashes == 2
MaxChainId == 2
MaxPreInserts == 2
MaxDocParticipants == 2
MaxPage == 2
MaxReminders == 1
MaxEvents == 3

\* ---------------------------------------------------- program constants
MaxParticipants == 50
MaxProbeAttempts == 100
Tolerance == 1
MinTotalAmount == 1

\* the createSplit calls in flight: two concurrent requests
Procs == {1, 2}

VARIABLES
  splits,            \* the `splits` collection: a set of split documents
  users,             \* the `users` collection: a set of user documents
  pc,                \* per call: the await the call is suspended at
  req,               \* per call: creatorAddress and splitData
  splitId,           \* per call: local `splitId`
  attempts,          \* per call: local `attempts`
  blockchainResult,  \* per call: local `blockchainResult`
  creator,           \* per call: the user document loaded by findByWallet
  outcome,           \* per call: what the promise settled with
  trace,             \* per call: history of the call (observation only)
  envInserts,        \* number of splits inserted by creators outside Procs
  doc,               \* a split document loaded from the store (an ISplit instance)
  docCall,           \* the last method called on doc and how it settled
  httpReq,           \* per request: what it carries and the locals of its handlers
  res,               \* per request: the response sent (status 0: none yet)
  listCall,          \* a getSplits call: its arguments and what it resolved with
  routes,            \* the route table of the mounted splitRouter, in registration order
  held,              \* per payer: the copy of a split document it loaded
  server             \* the ServerManager and its process

procVars == <<pc, req, splitId, attempts, blockchainResult, creator, outcome, trace>>
docVars == <<doc, docCall>>
webVars == <<httpReq, res, listCall>>
sysVars == <<routes, held, server>>
vars == <<splits, users, pc, req, splitId, attempts, blockchainResult, creator,
          outcome, trace, envInserts, doc, docCall, httpReq, res, listCall,
          routes, held, server>>

\* ------------------------------------------------------------ addresses
Addr(i, u) == [id |-> i, upper |-> u, ok |-> TRUE]
BadAddr == [id |-> 0, upper |-> FALSE, ok |-> FALSE]

\* String.prototype.toLowerCase on an address or hash text
toLowerCase(a) == [a EXCEPT !.upper = FALSE]

\* /^0x[a-fA-F0-9]{40}$/.test(v)
AddressFormat(v) == v.ok

\* a transaction hash text, 0x + 64 hex digits
Hash(i) == [id |-> i, upper |-> FALSE, ok |-> TRUE]

\* paymentTxHash: undefined
NoHash == [id |-> 0, upper |-> FALSE, ok |-> TRUE]

\* ------------------------------------------------------------ documents
RECURSIVE SumAmounts(_)
SumAmounts(ps) ==
  IF ps = <<>> THEN 0 ELSE ps[1].amountDue + SumAmounts(Tail(ps))

Abs(x) == IF x < 0 THEN 0 - x ELSE x

Max(S) == CHOOSE x \in S : \A y \in S : y <= x

\* the participants array createSplit builds from the request
PrepareParticipants(ps) ==
  [i \in 1..Len(ps) |->
     [walletAddress |-> toLowerCase(ps[i].walletAddress),
      amountDue |-> ps[i].amountDue,
      hasPaid |-> FALSE,
      paidAt |-> 0,
      paymentTxHash |-> NoHash,
      reminderCount |-> 0,
      lastRemindedAt |-> 0]]

\* the object handed to Split.create, after the schema's lowercase setters
NewSplit(id, r, creatorAddress, data) ==
  [splitId |-> id,
   contractAddress |-> toLowerCase(r.splitAddress),
   txHash |-> toLowerCase(r.txHash),
   isConfirmed |-> r.isConfirmed,
   creatorAddress |-> toLowerCase(creatorAddress),
   totalAmount |-> data.totalAmount,
   status |-> IF r.isConfirmed THEN "active" ELSE "pending",
   isCompleted |-> FALSE,
   isCancelled |-> FALSE,
   participants |-> PrepareParticipants(data.participants),
   completedAt |-> 0,
   cancelledAt |-> 0]

ValidateSplitNoMax(d) ==
  /\ d.splitId >= 0
  /\ AddressFormat(d.contractAddress)
  /\ d.txHash.ok
  /\ AddressFormat(d.creatorAddress)
  /\ d.totalAmount >= MinTotalAmount
  /\ Len(d.participants) > 0
  /\ \A i \in 1..Len(d.participants) :
       /\ AddressFormat(d.participants[i].walletAddress)
       /\ d.participants[i].amountDue >= 0

\* the schema validators that run on save
ValidateSplit(d) ==
  /\ d.splitId >= 0
  /\ AddressFormat(d.contractAddress)
  /\ d.txHash.ok
  /\ AddressFormat(d.creatorAddress)
  /\ d.totalAmount >= MinTotalAmount
  /\ Len(d.participants) > 0
  /\ Len(d.participants) <= MaxParticipants
  /\ \A i \in 1..Len(d.participants) :
       /\ AddressFormat(d.participants[i].walletAddress)
       /\ d.participants[i].amountDue >= 0

\* the unique indexes splitId_unique and txHash_unique
UniqueSplitMutant(d, coll) == \A s \in coll : s.txHash # d.txHash
UniqueSplit(d, coll) ==
  \A s \in coll : s.splitId # d.splitId /\ s.txHash # d.txHash

findBySplitId(id) == {s \in splits : s.splitId = id}
findByTxHash(h) == {s \in splits : s.txHash = toLowerCase(h)}
findByWallet(w) == {u \in users : u.walletAddress = toLowerCase(w)}

\* Split.findOne().sort({ splitId: -1 }), then maxSplit ? maxSplit.splitId + 1 : 1
NextSplitId(coll) ==
  IF coll = {} THEN 1 ELSE Max({s.splitId : s \in coll}) + 1

\* ------------------------------------------------------- call-local data
NoReq == [creatorAddress |-> BadAddr, totalAmount |-> 0, participants |-> <<>>]
NoChain == [defined |-> FALSE, splitId |-> 0, splitAddress |-> BadAddr,
            txHash |-> Hash(0), isConfirmed |-> FALSE]
NoUser == [defined |-> FALSE, userId |-> 0, walletAddress |-> BadAddr,
           totalSplitsCreated |-> 0, lastActiveAt |-> 0]

\* a stored user document; lastActiveAt is 0 for a time before the run and 1
\* for a `new Date()` taken during it
User(id, w, n, t) ==
  [userId |-> id, walletAddress |-> w, totalSplitsCreated |-> n, lastActiveAt |-> t]

\* the IUser instance a query resolves with
Loaded(u) ==
  [defined |-> TRUE, userId |-> u.userId, walletAddress |-> u.walletAddress,
   totalSplitsCreated |-> u.totalSplitsCreated, lastActiveAt |-> u.lastActiveAt]
NoOutcome == [kind |-> "none", msg |-> "", splitId |-> 0,
              contractAddress |-> BadAddr, txHash |-> Hash(0)]
NoTrace == [chainCalled |-> FALSE, persisted |-> FALSE, txFound |-> FALSE,
            createFailed |-> FALSE,
            probes |-> 0, lastProbeFree |-> FALSE, firstId |-> 0,
            statFailed |-> FALSE, statSaved |-> FALSE, statBase |-> 0]

Thrown(m) == [NoOutcome EXCEPT !.kind = "error", !.msg = m]
Returned(id, c, h) ==
  [kind |-> "ok", msg |-> "", splitId |-> id, contractAddress |-> c, txHash |-> h]

\* blockchainSplitId ? Number(blockchainSplitId) : splitId
FinalSplitId(r, id) == IF r.splitId # 0 THEN r.splitId ELSE id

\* the catch block of createSplit: the blockchain data when there is any,
\* the error otherwise
CatchMutant(p, m) == Thrown(m)
CatchReturns(p, m) ==
  Returned(FinalSplitId(blockchainResult[p], splitId[p]),
           blockchainResult[p].splitAddress, blockchainResult[p].txHash)
Catch(p, m) ==
  IF blockchainResult[p].defined
  THEN Returned(FinalSplitId(blockchainResult[p], splitId[p]),
                blockchainResult[p].splitAddress, blockchainResult[p].txHash)
  ELSE Thrown(m)

Settle(p, o) ==
  /\ pc' = [pc EXCEPT ![p] = "done"]
  /\ outcome' = [outcome EXCEPT ![p] = o]

NoSplit == NewSplit(0, NoChain, BadAddr, NoReq)
NoCall == [op |-> "", error |-> "", saved |-> FALSE]

\* a caller that has loaded no split: the instance it holds, the document as
\* it was loaded, and the markParticipantPaid call it made on the instance
NoHeld == [doc |-> NoSplit, loaded |-> NoSplit, walletAddress |-> BadAddr,
           error |-> ""]

\* a signature text: whether it has the 0x + 130 hex digits form, and the id of
\* the wallet ethers.verifyMessage recovers from it (0: verifyMessage throws)
Sig(f, w) == [present |-> TRUE, ok |-> f, signer |-> w]
NoSig == [present |-> FALSE, ok |-> FALSE, signer |-> 0]

\* a token text: whether jwt.verify accepts it, and the walletAddress it carries
Token(v, w) == [valid |-> v, walletAddress |-> w]
NoToken == Token(FALSE, BadAddr)

\* the Authorization header: its scheme ("" when there is no header) and token
Authorization(sch, t) == [scheme |-> sch, token |-> t]

\* the body of a create request: whether it has a description, the amount and
\* the participants
Body(desc, ps, total) == [description |-> desc, totalAmount |-> total, participants |-> ps]
NoBody == Body(FALSE, <<>>, 0)

\* the empty text
EmptyAddr == [id |-> 0 - 1, upper |-> FALSE, ok |-> FALSE]

\* a request: the handler its route selects, the fields of an auth body, the
\* Authorization header, req.params.splitId (0: not a number), the body of a
\* create request, req.user, and whether a split endpoint handler ran
NoHttp == [route |-> "", walletAddress |-> EmptyAddr, signature |-> NoSig,
           authorization |-> Authorization("", NoToken), splitId |-> 0,
           body |-> NoBody, user |-> NoUser, handled |-> FALSE,
           method |-> "", path |-> "", lookupThrew |-> FALSE]
NoRes == [status |-> 0, message |-> "", token |-> NoToken]

\* router.post / router.get: a registered route
Route(method, path, handler) == [method |-> method, path |-> path, handler |-> handler]

\* the routes of routes/split.routes.ts, in the order they are registered
SplitRouter ==
  <<Route("POST", "/create", "create"),
    Route("GET", "/", "list"),
    Route("GET", "/creator", "creator"),
    Route("GET", "/participant", "participant"),
    Route("GET", "/:splitId", "get")>>

\* the routes of the other version of the split router
SplitRouterOther ==
  <<Route("POST", "/create", "create"),
    Route("GET", "/:splitId", "get"),
    Route("GET", "/creator", "creator"),
    Route("GET", "/participant", "participant")>>

\* the ServerManager after construction: the phase of start(), the flag, the
\* calls of mongoose.connection.close() made and pending, the exits of the
\* process, and the events the process received (observation only)
NoServer == [phase |-> "new", isShuttingDown |-> FALSE, closeCalls |-> 0,
             closing |-> FALSE, exits |-> 0, exitCode |-> 0, events |-> <<>>]

\* new Error(message), and a CustomError with its status set
Err(m) == [status |-> 0, message |-> m]
CustomErr(st, m) == [status |-> st, message |-> m]

\* errorHandler: the response it sends for err
errorHandler(err) ==
  [status |-> IF err.status # 0 THEN err.status ELSE 500,
   message |-> IF err.message # "" THEN err.message ELSE "An unexpected error occurred",
   token |-> NoToken]

\* res.status(st).json({ message: m, data: t })
Json(st, m, t) == [status |-> st, message |-> m, token |-> t]
NoList == [called |-> FALSE, walletAddress |-> BadAddr, status |-> "",
           limit |-> 0, skip |-> 0, result |-> <<>>, error |-> ""]

\* ------------------------------------------------ SplitService.createSplit
ValidationErrorCount(creatorAddress, splitData) ==
  IF ~AddressFormat(toLowerCase(creatorAddress))
  THEN "Invalid creator wallet address format"
  ELSE IF Len(splitData.participants) = 0
  THEN "At least one participant is required"
  ELSE IF Len(splitData.participants) >= MaxParticipants
  THEN "Maximum 50 participants allowed"
  ELSE IF Abs(SumAmounts(splitData.participants) - splitData.totalAmount) > Tolerance
  THEN "Total amount doesn't match sum of participant amounts"
  ELSE IF \E i \in 1..Len(splitData.participants) :
            ~AddressFormat(toLowerCase(splitData.participants[i].walletAddress))
  THEN "Invalid participant wallet address"
  ELSE ""

ValidationErrorAmount(creatorAddress, splitData) ==
  IF ~AddressFormat(toLowerCase(creatorAddress))
  THEN "Invalid creator wallet address format"
  ELSE IF Len(splitData.participants) = 0
  THEN "At least one participant is required"
  ELSE IF Len(splitData.participants) > MaxParticipants
  THEN "Maximum 50 participants allowed"
  ELSE IF Abs(SumAmounts(splitData.participants) - splitData.totalAmount) >= Tolerance
  THEN "Total amount doesn't match sum of participant amounts"
  ELSE IF \E i \in 1..Len(splitData.participants) :
            ~AddressFormat(toLowerCase(splitData.participants[i].walletAddress))
  THEN "Invalid participant wallet address"
  ELSE ""

ValidationErrorLax(creatorAddress, splitData) ==
  IF ~AddressFormat(toLowerCase(creatorAddress))
  THEN "Invalid creator wallet address format"
  ELSE IF Len(splitData.participants) = 0
  THEN "At least one participant is required"
  ELSE IF Len(splitData.participants) > MaxParticipants
  THEN "Maximum 50 participants allowed"
  ELSE IF Abs(SumAmounts(splitData.participants) - splitData.totalAmount) > Tolerance
  THEN "Total amount doesn't match sum of participant amounts"
  ELSE ""

\* the checks made before the first await; "" when the request passes
ValidationError(creatorAddress, splitData) ==
  IF ~AddressFormat(toLowerCase(creatorAddress))
  THEN "Invalid creator wallet address format"
  ELSE IF Len(splitData.participants) = 0
  THEN "At least one participant is required"
  ELSE IF Len(splitData.participants) > MaxParticipants
  THEN "Maximum 50 participants allowed"
  ELSE IF Abs(SumAmounts(splitData.participants) - splitData.totalAmount) > Tolerance
  THEN "Total amount doesn't match sum of participant amounts"
  ELSE IF \E i \in 1..Len(splitData.participants) :
            ~AddressFormat(toLowerCase(splitData.participants[i].walletAddress))
  THEN "Invalid participant wallet address"
  ELSE ""

\* the start of createSplit: validation runs, then Split.findOne() is awaited
CreateSplitStart(p, creatorAddress, splitData) ==
  /\ req' = [req EXCEPT ![p] = [creatorAddress |-> creatorAddress,
                                totalAmount |-> splitData.totalAmount,
                                participants |-> splitData.participants]]
  /\ IF ValidationError(creatorAddress, splitData) = ""
     THEN /\ pc' = [pc EXCEPT ![p] = "findMax"]
          /\ UNCHANGED outcome
     ELSE Settle(p, Catch(p, ValidationError(creatorAddress, splitData)))

\* createSplit is called by a caller of the service
CreateSplitCall(p, creatorAddress, splitData) ==
  /\ pc[p] = "idle"
  /\ CreateSplitStart(p, creatorAddress, splitData)
  /\ UNCHANGED <<splits, users, splitId, attempts, blockchainResult, creator,
                 trace, envInserts, docVars, webVars, sysVars>>

\* Split.findOne().sort({ splitId: -1 }) resolves or rejects
FindMaxSplit(p) ==
  /\ pc[p] = "findMax"
  /\ \/ /\ splitId' = [splitId EXCEPT ![p] = NextSplitId(splits)]
        /\ trace' = [trace EXCEPT ![p].firstId = NextSplitId(splits)]
        /\ pc' = [pc EXCEPT ![p] = "probe"]
        /\ UNCHANGED outcome
     \/ /\ Settle(p, Catch(p, "persistence unavailable"))
        /\ UNCHANGED <<splitId, trace>>
  /\ UNCHANGED <<splits, users, req, attempts, blockchainResult, creator, envInserts, docVars, webVars, sysVars>>

\* one Split.findBySplitId(splitId) of the allocation resolves: the one before
\* the loop (pc = "probe") or one inside it (pc = "probeLoop", then attempts++),
\* followed by the loop test and the test after the loop
ProbeSplitId(p) ==
  /\ pc[p] \in {"probe", "probeLoop"}
  /\ \/ LET existingSplit == findBySplitId(splitId[p]) # {}
            a == IF pc[p] = "probeLoop" THEN attempts[p] + 1 ELSE attempts[p]
        IN /\ attempts' = [attempts EXCEPT ![p] = a]
           /\ trace' = [trace EXCEPT ![p].probes = @ + 1,
                                     ![p].lastProbeFree = ~existingSplit]
           /\ IF existingSplit /\ a < MaxProbeAttempts
              THEN /\ splitId' = [splitId EXCEPT ![p] = @ + 1]
                   /\ pc' = [pc EXCEPT ![p] = "probeLoop"]
                   /\ UNCHANGED outcome
              ELSE IF a >= MaxProbeAttempts
              THEN /\ Settle(p, Catch(p, "Unable to generate unique split ID"))
                   /\ UNCHANGED splitId
              ELSE /\ pc' = [pc EXCEPT ![p] = "deploy"]
                   /\ UNCHANGED <<splitId, outcome>>
     \/ /\ Settle(p, Catch(p, "persistence unavailable"))
        /\ UNCHANGED <<splitId, attempts, trace>>
  /\ UNCHANGED <<splits, users, req, blockchainResult, creator, envInserts, docVars, webVars, sysVars>>

\* what deploySplitContract can resolve with
ChainResults ==
  {[defined |-> TRUE, splitId |-> c, splitAddress |-> Addr(h, TRUE),
    txHash |-> Hash(h), isConfirmed |-> k] :
     h \in 1..NumTxHashes, c \in 0..MaxChainId, k \in BOOLEAN}

\* deploySplitContract resolves with the on-chain data or rejects
DeploySplitContract(p) ==
  /\ pc[p] = "deploy"
  /\ trace' = [trace EXCEPT ![p].chainCalled = TRUE]
  /\ \/ \E r \in ChainResults :
          /\ blockchainResult' = [blockchainResult EXCEPT ![p] = r]
          /\ pc' = [pc EXCEPT ![p] = "findTx"]
          /\ UNCHANGED outcome
     \/ /\ Settle(p, Catch(p, "Failed to deploy split contract"))
        /\ UNCHANGED blockchainResult
  /\ UNCHANGED <<splits, users, req, splitId, attempts, creator, envInserts, docVars, webVars, sysVars>>

\* Split.findByTxHash(txHash) resolves or rejects
FindByTxHash(p) ==
  /\ pc[p] = "findTx"
  /\ \/ /\ findByTxHash(blockchainResult[p].txHash) = {}
        /\ pc' = [pc EXCEPT ![p] = "create"]
        /\ UNCHANGED <<outcome, trace>>
     \/ /\ findByTxHash(blockchainResult[p].txHash) # {}
        /\ trace' = [trace EXCEPT ![p].txFound = TRUE]
        /\ Settle(p, Catch(p, "Transaction hash already exists in database"))
     \/ /\ Settle(p, Catch(p, "persistence unavailable"))
        /\ UNCHANGED trace
  /\ UNCHANGED <<splits, users, req, splitId, attempts, blockchainResult, creator,
                 envInserts, docVars, webVars, sysVars>>

\* the document this call hands to Split.create
CallSplit(p) ==
  NewSplit(FinalSplitId(blockchainResult[p], splitId[p]), blockchainResult[p],
           req[p].creatorAddress, req[p])

\* Split.create resolves (validators pass, no duplicate key) or rejects
SplitCreate(p) ==
  /\ pc[p] = "create"
  /\ \/ /\ ValidateSplit(CallSplit(p))
        /\ UniqueSplit(CallSplit(p), splits)
        /\ splits' = splits \cup {CallSplit(p)}
        /\ trace' = [trace EXCEPT ![p].persisted = TRUE]
        /\ pc' = [pc EXCEPT ![p] = "findCreator"]
        /\ UNCHANGED outcome
     \/ /\ trace' = [trace EXCEPT ![p].createFailed = TRUE]
        /\ Settle(p, Catch(p, "Split.create failed"))
        /\ UNCHANGED splits
  /\ UNCHANGED <<users, req, splitId, attempts, blockchainResult, creator, envInserts, docVars, webVars, sysVars>>

ReturnGeneratedId(p) ==
  Returned(splitId[p], toLowerCase(blockchainResult[p].splitAddress),
           toLowerCase(blockchainResult[p].txHash))

\* return { splitId: split.splitId, contractAddress: ..., txHash: ... }
ReturnSplit(p) ==
  Returned(CallSplit(p).splitId, CallSplit(p).contractAddress, CallSplit(p).txHash)

\* usersModel.findByWallet(normalizedCreator) resolves or rejects
FindCreator(p) ==
  /\ pc[p] = "findCreator"
  /\ \/ \E u \in findByWallet(req[p].creatorAddress) :
          /\ creator' = [creator EXCEPT ![p] = Loaded(u)]
          /\ trace' = [trace EXCEPT ![p].statBase = u.totalSplitsCreated]
          /\ pc' = [pc EXCEPT ![p] = "saveCreator"]
          /\ UNCHANGED outcome
     \/ /\ findByWallet(req[p].creatorAddress) = {}
        /\ Settle(p, ReturnSplit(p))
        /\ UNCHANGED <<creator, trace>>
     \/ /\ trace' = [trace EXCEPT ![p].statFailed = TRUE]
        /\ Settle(p, ReturnSplit(p))
        /\ UNCHANGED creator
  /\ UNCHANGED <<splits, users, req, splitId, attempts, blockchainResult, envInserts, docVars, webVars, sysVars>>

\* UserSchema.methods.incrementSplitCreated: this.totalSplitsCreated += 1,
\* this.lastActiveAt = new Date(), then save() writes the new values of the
\* modified paths to the stored document
incrementSplitCreated(u, coll) ==
  {IF v.userId = u.userId
   THEN [v EXCEPT !.totalSplitsCreated = u.totalSplitsCreated + 1,
                  !.lastActiveAt = 1]
   ELSE v : v \in coll}

IncrementSplitCreatedThrows(p) ==
  /\ pc[p] = "saveCreator"
  /\ \/ /\ users' = incrementSplitCreated(creator[p], users)
        /\ trace' = [trace EXCEPT ![p].statSaved = TRUE]
        /\ Settle(p, ReturnSplit(p))
     \/ /\ trace' = [trace EXCEPT ![p].statFailed = TRUE]
        /\ Settle(p, Thrown("Failed to update creator stats"))
        /\ UNCHANGED users
  /\ UNCHANGED <<splits, req, splitId, attempts, blockchainResult, creator, envInserts, docVars, webVars, sysVars>>

\* creator.incrementSplitCreated() resolves or rejects; createSplit returns
IncrementSplitCreated(p) ==
  /\ pc[p] = "saveCreator"
  /\ \/ /\ users' = incrementSplitCreated(creator[p], users)
        /\ trace' = [trace EXCEPT ![p].statSaved = TRUE]
     \/ /\ trace' = [trace EXCEPT ![p].statFailed = TRUE]
        /\ UNCHANGED users
  /\ Settle(p, ReturnSplit(p))
  /\ UNCHANGED <<splits, req, splitId, attempts, blockchainResult, creator, envInserts, docVars, webVars, sysVars>>

\* ------------------------------------------------------------- requests
Part(a, amt) == [walletAddress |-> a, amountDue |-> amt]

\* n participants with pairwise distinct wallets, one unit each
PartList(n) == [i \in 1..n |-> Part(Addr(i, i % 2 = 1), 1)]

Alice == Addr(1, TRUE)
Bob == Addr(2, FALSE)

\* the requests of the concurrent specification
Request(c, ps, total) == [creatorAddress |-> c, totalAmount |-> total, participants |-> ps]

Requests == {Request(Alice, PartList(2), 2), Request(Bob, PartList(1), 1)}

\* the requests of the single-call specification: every validation case
Mallory == Addr(3, TRUE)
ParticipantInputs ==
  {PartList(n) : n \in {0, 1, 2, MaxParticipants, MaxParticipants + 1}}
    \cup {<<Part(Alice, 1), Part(BadAddr, 1)>>,
          <<Part(Alice, 1), Part(toLowerCase(Alice), 1)>>}
ValidationRequests ==
  {Request(c, ps, SumAmounts(ps) + d) :
     c \in {Alice, Bob, BadAddr}, ps \in ParticipantInputs, d \in -2..2}

Init ==
  /\ splits = {}
  /\ users = {User(0, toLowerCase(Alice), 0, 0)}
  /\ pc = [p \in Procs |-> "idle"]
  /\ req = [p \in Procs |-> NoReq]
  /\ splitId = [p \in Procs |-> 1]
  /\ attempts = [p \in Procs |-> 0]
  /\ blockchainResult = [p \in Procs |-> NoChain]
  /\ creator = [p \in Procs |-> NoUser]
  /\ outcome = [p \in Procs |-> NoOutcome]
  /\ trace = [p \in Procs |-> NoTrace]
  /\ envInserts = 0
  /\ doc = NoSplit
  /\ docCall = NoCall
  /\ httpReq = [p \in Procs |-> NoHttp]
  /\ res = [p \in Procs |-> NoRes]
  /\ listCall = NoList
  /\ routes = SplitRouter
  /\ held = [p \in Procs |-> NoHeld]
  /\ server = NoServer

Next ==
  \E p \in Procs :
    \/ \E r \in Requests : CreateSplitCall(p, r.creatorAddress, r)
    \/ FindMaxSplit(p)
    \/ ProbeSplitId(p)
    \/ DeploySplitContract(p)
    \/ FindByTxHash(p)
    \/ SplitCreate(p)
    \/ FindCreator(p)
    \/ IncrementSplitCreated(p)

Spec == Init /\ [][Next]_vars

\* one call, every request
NextValidate ==
  \/ \E r \in ValidationRequests : CreateSplitCall(1, r.creatorAddress, r)
  \/ FindMaxSplit(1)
  \/ ProbeSplitId(1)
  \/ DeploySplitContract(1)
  \/ FindByTxHash(1)
  \/ SplitCreate(1)
  \/ FindCreator(1)
  \/ IncrementSplitCreated(1)

SpecValidate == Init /\ [][NextValidate]_vars

\* a split persisted by a createSplit call of another server instance
EnvSplit(k) ==
  NewSplit(k, [defined |-> TRUE, splitId |-> k, splitAddress |-> Addr(NumTxHashes + k, TRUE),
               txHash |-> Hash(NumTxHashes + k), isConfirmed |-> FALSE],
           Mallory, Request(Mallory, PartList(1), 1))

\* another creator's Split.create lands: before this call reads the maximum, or
\* on the id this call is about to look up (the contended candidate)
ConcurrentCreate(k) ==
  /\ \/ /\ pc[1] \in {"idle", "findMax"}
        /\ envInserts < MaxPreInserts
        /\ k = NextSplitId(splits)
     \/ /\ pc[1] \in {"probe", "probeLoop"}
        /\ k = splitId[1]
  /\ UniqueSplit(EnvSplit(k), splits)
  /\ splits' = splits \cup {EnvSplit(k)}
  /\ envInserts' = envInserts + 1
  /\ UNCHANGED <<users, pc, req, splitId, attempts, blockchainResult, creator,
                 outcome, trace, docVars, webVars, sysVars>>

\* one call racing with creators that take the ids it examines
ProbeRequests ==
  {Request(Alice, PartList(2), 2),
   Request(BadAddr, PartList(2), 2),
   Request(Alice, PartList(0), 0),
   Request(Alice, PartList(MaxParticipants + 1), MaxParticipants + 1),
   Request(Alice, PartList(2), 2 + Tolerance + 1),
   Request(Alice, <<Part(Alice, 1), Part(BadAddr, 1)>>, 2)}

NextProbe ==
  \/ \E r \in ProbeRequests : CreateSplitCall(1, r.creatorAddress, r)
  \/ \E k \in 1..(MaxPreInserts + MaxProbeAttempts + 2) : ConcurrentCreate(k)
  \/ FindMaxSplit(1)
  \/ ProbeSplitId(1)
  \/ DeploySplitContract(1)
  \/ FindByTxHash(1)
  \/ SplitCreate(1)
  \/ FindCreator(1)
  \/ IncrementSplitCreated(1)

SpecProbe == Init /\ [][NextProbe]_vars

TypeOK ==
  /\ \A p \in Procs : pc[p] \in {"idle", "findMax", "probe", "probeLoop", "deploy",
                                 "findTx", "create", "findCreator", "saveCreator", "done",
                                 "authFind", "authCreate", "authActivity",
                                 "verifyFind", "read", "sent", "loaded", "paid"}
  /\ \A p \in Procs : outcome[p].kind \in {"none", "ok", "error"}

\* ------------------------------------------------- split document methods
\* this.participants.every(p => p.hasPaid)
AllPaid(d) == \A i \in 1..Len(d.participants) : d.participants[i].hasPaid

\* participants.findIndex(p => p.walletAddress.toLowerCase() === w.toLowerCase()),
\* 0 when there is none
FindParticipant(d, w) ==
  IF \E i \in 1..Len(d.participants) :
       toLowerCase(d.participants[i].walletAddress) = toLowerCase(w)
  THEN CHOOSE i \in 1..Len(d.participants) :
         /\ toLowerCase(d.participants[i].walletAddress) = toLowerCase(w)
         /\ \A j \in 1..(i - 1) :
              toLowerCase(d.participants[j].walletAddress) # toLowerCase(w)
  ELSE 0

\* the pre-save hook that lower-cases the addresses and hashes of the document
NormalizeSplit(d) ==
  [d EXCEPT !.creatorAddress = toLowerCase(@),
            !.contractAddress = toLowerCase(@),
            !.txHash = toLowerCase(@),
            !.participants =
               [i \in 1..Len(@) |->
                  [@[i] EXCEPT !.walletAddress = toLowerCase(@),
                               !.paymentTxHash = toLowerCase(@)]]]

\* the validators of a split document, those of its participants included
ValidateDoc(d) ==
  /\ ValidateSplit(d)
  /\ \A i \in 1..Len(d.participants) : d.participants[i].paymentTxHash.ok

\* the collection after save() has written the document
SaveSplit(d, coll) == {s \in coll : s.splitId # d.splitId} \cup {NormalizeSplit(d)}

SetStatusKeepsFlags(d, newStatus) ==
  [d EXCEPT !.status = newStatus,
            !.isCompleted = @ \/ (newStatus = "completed"),
            !.isCancelled = @ \/ (newStatus = "cancelled")]

\* the assignments of updateStatus(newStatus), before its save()
SetStatus(d, newStatus) ==
  [d EXCEPT !.status = newStatus,
            !.isCompleted = (newStatus = "completed"),
            !.isCancelled = (newStatus = "cancelled"),
            !.completedAt = IF newStatus = "completed" /\ @ = 0 THEN 1 ELSE @,
            !.cancelledAt = IF newStatus = "cancelled" /\ @ = 0 THEN 1 ELSE @]

CompletionDueOnlyActive(d) ==
  AllPaid(d) /\ Len(d.participants) > 0 /\ d.status = "active"

CompletionDueAgain(d) == AllPaid(d) /\ Len(d.participants) > 0

\* the test of checkAndUpdateCompletion
CompletionDue(d) ==
  AllPaid(d) /\ Len(d.participants) > 0 /\ ~d.isCompleted

\* the document after checkAndUpdateCompletion has made its assignments
Completion(d) == IF CompletionDue(d) THEN SetStatus(d, "completed") ELSE d

\* a method of doc settles: save() wrote the document d, or rejected (a
\* validator, or the store) and left the assignments on the instance only
SaveFrom(d, op) ==
  \/ /\ ValidateDoc(d)
     /\ doc' = NormalizeSplit(d)
     /\ splits' = SaveSplit(d, splits)
     /\ docCall' = [op |-> op, error |-> "", saved |-> TRUE]
  \/ /\ doc' = d
     /\ docCall' = [op |-> op, error |-> "save failed", saved |-> FALSE]
     /\ UNCHANGED splits

Reject(op, m) ==
  /\ docCall' = [op |-> op, error |-> m, saved |-> FALSE]
  /\ UNCHANGED <<doc, splits>>

HasPaidNever(d, index) == FALSE

\* participant.hasPaid, the test of the three methods that refuse a paid
\* participant
HasPaid(d, index) == d.participants[index].hasPaid

\* doc.markParticipantPaid(walletAddress, txHash)
MarkParticipantPaid(walletAddress, txHash) ==
  /\ LET i == FindParticipant(doc, walletAddress)
     IN IF i = 0
        THEN Reject("markParticipantPaid", "Participant not found")
        ELSE IF HasPaid(doc, i)
        THEN Reject("markParticipantPaid", "Participant has already paid")
        ELSE SaveFrom(Completion([doc EXCEPT !.participants[i].hasPaid = TRUE,
                                             !.participants[i].paidAt = 1,
                                             !.participants[i].paymentTxHash = txHash]),
                      "markParticipantPaid")
  /\ UNCHANGED <<users, procVars, envInserts, webVars, sysVars>>

\* doc.updateStatus(newStatus)
UpdateStatus(newStatus) ==
  /\ SaveFrom(SetStatus(doc, newStatus), "updateStatus")
  /\ UNCHANGED <<users, procVars, envInserts, webVars, sysVars>>

\* doc.checkAndUpdateCompletion()
CheckAndUpdateCompletion ==
  /\ IF CompletionDue(doc)
     THEN SaveFrom(Completion(doc), "checkAndUpdateCompletion")
     ELSE Reject("checkAndUpdateCompletion", "")
  /\ UNCHANGED <<users, procVars, envInserts, webVars, sysVars>>

Statuses == {"pending", "active", "completed", "cancelled"}
PaymentHash == [id |-> 9, upper |-> TRUE, ok |-> TRUE]
BadHash == [id |-> 9, upper |-> FALSE, ok |-> FALSE]

\* the stored splits a document is loaded from: as createSplit persists them
CreatedSplits ==
  {NewSplit(1, r, Alice, Request(Alice, PartList(n), n)) :
     r \in {c \in ChainResults : c.txHash = Hash(1) /\ c.splitId = 1},
     n \in 1..MaxDocParticipants}

InitDoc ==
  /\ \E d \in CreatedSplits : splits = {d} /\ doc = d
  /\ users = {User(0, toLowerCase(Alice), 1, 0)}
  /\ pc = [p \in Procs |-> "idle"]
  /\ req = [p \in Procs |-> NoReq]
  /\ splitId = [p \in Procs |-> 1]
  /\ attempts = [p \in Procs |-> 0]
  /\ blockchainResult = [p \in Procs |-> NoChain]
  /\ creator = [p \in Procs |-> NoUser]
  /\ outcome = [p \in Procs |-> NoOutcome]
  /\ trace = [p \in Procs |-> NoTrace]
  /\ envInserts = 0
  /\ docCall = NoCall
  /\ httpReq = [p \in Procs |-> NoHttp]
  /\ res = [p \in Procs |-> NoRes]
  /\ listCall = NoList
  /\ routes = SplitRouter
  /\ held = [p \in Procs |-> NoHeld]
  /\ server = NoServer

NextDoc ==
  \/ \E i \in 1..(MaxDocParticipants + 1) : \E h \in {PaymentHash, BadHash} :
       MarkParticipantPaid(Addr(i, TRUE), h)
  \/ \E st \in Statuses : UpdateStatus(st)
  \/ CheckAndUpdateCompletion

SpecDoc == InitDoc /\ [][NextDoc]_vars

\* ------------------------------------------- the participants of a document
\* splice(index, 1) on the participants array
Splice(ps, index) == [k \in 1..(Len(ps) - 1) |-> IF k < index THEN ps[k] ELSE ps[k + 1]]

\* doc.addParticipant(participant)
AddParticipant(participant) ==
  /\ IF doc.isCompleted \/ doc.isCancelled
     THEN Reject("addParticipant", "Cannot add participants to completed or cancelled split")
     ELSE IF FindParticipant(doc, participant.walletAddress) # 0
     THEN Reject("addParticipant", "Participant already exists in this split")
     ELSE IF ~AddressFormat(participant.walletAddress)
     THEN Reject("addParticipant", "Invalid wallet address format")
     ELSE SaveFrom([doc EXCEPT !.participants =
                                 @ \o PrepareParticipants(<<participant>>)],
                   "addParticipant")
  /\ UNCHANGED <<users, procVars, envInserts, webVars, sysVars>>

\* doc.removeParticipant(walletAddress): the entry is spliced out of the
\* instance before the test for an empty array
RemoveParticipant(walletAddress) ==
  /\ LET index == FindParticipant(doc, walletAddress)
     IN IF doc.isCompleted \/ doc.isCancelled
        THEN Reject("removeParticipant",
                    "Cannot remove participants from completed or cancelled split")
        ELSE IF index = 0
        THEN Reject("removeParticipant", "Participant not found in this split")
        ELSE IF HasPaid(doc, index)
        THEN Reject("removeParticipant", "Cannot remove participant who has already paid")
        ELSE IF Len(doc.participants) = 1
        THEN /\ doc' = [doc EXCEPT !.participants = Splice(@, index)]
             /\ docCall' = [op |-> "removeParticipant",
                            error |-> "Cannot remove last participant from split",
                            saved |-> FALSE]
             /\ UNCHANGED splits
        ELSE SaveFrom([doc EXCEPT !.participants = Splice(@, index)],
                      "removeParticipant")
  /\ UNCHANGED <<users, procVars, envInserts, webVars, sysVars>>

\* doc.sendReminder(walletAddress)
SendReminder(walletAddress) ==
  /\ LET i == FindParticipant(doc, walletAddress)
     IN IF i = 0
        THEN Reject("sendReminder", "Participant with wallet not found")
        ELSE IF HasPaid(doc, i)
        THEN Reject("sendReminder",
                    "Cannot send reminder to participant who has already paid")
        ELSE /\ doc.participants[i].reminderCount < MaxReminders
             /\ SaveFrom([doc EXCEPT !.participants[i].reminderCount = @ + 1,
                                     !.participants[i].lastRemindedAt = 1],
                         "sendReminder")
  /\ UNCHANGED <<users, procVars, envInserts, webVars, sysVars>>

\* the stored splits whose participants are added and removed: as createSplit
\* persists them, the largest one with the maximum number of participants
RosterSplits ==
  {NewSplit(1, r, Alice, Request(Alice, PartList(n), n)) :
     r \in {c \in ChainResults : c.txHash = Hash(1) /\ c.splitId = 1 /\ c.isConfirmed},
     n \in (1..MaxDocParticipants) \cup {MaxParticipants}}

\* the wallets that are added, removed and marked paid
RosterWallets == {Addr(1, TRUE), Addr(2, TRUE), Addr(MaxParticipants + 1, TRUE), BadAddr}

InitRoster ==
  /\ \E d \in RosterSplits : splits = {d} /\ doc = d
  /\ users = {User(0, toLowerCase(Alice), 1, 0)}
  /\ pc = [p \in Procs |-> "idle"]
  /\ req = [p \in Procs |-> NoReq]
  /\ splitId = [p \in Procs |-> 1]
  /\ attempts = [p \in Procs |-> 0]
  /\ blockchainResult = [p \in Procs |-> NoChain]
  /\ creator = [p \in Procs |-> NoUser]
  /\ outcome = [p \in Procs |-> NoOutcome]
  /\ trace = [p \in Procs |-> NoTrace]
  /\ envInserts = 0
  /\ docCall = NoCall
  /\ httpReq = [p \in Procs |-> NoHttp]
  /\ res = [p \in Procs |-> NoRes]
  /\ listCall = NoList
  /\ routes = SplitRouter
  /\ held = [p \in Procs |-> NoHeld]
  /\ server = NoServer

NextRoster ==
  \/ \E w \in RosterWallets : AddParticipant(Part(w, 1))
  \/ \E w \in RosterWallets : RemoveParticipant(w)
  \/ MarkParticipantPaid(Addr(1, TRUE), PaymentHash)

SpecRoster == InitRoster /\ [][NextRoster]_vars

\* ------------------------------------------------ concurrent payments
\* save() of an instance loaded as the document `loaded`: the modified paths
\* are written onto the stored document, the other paths keep what is stored
SaveModified(d, loaded, stored) ==
  [stored EXCEPT
     !.participants =
        [i \in 1..Len(@) |->
           IF i <= Len(d.participants) /\ d.participants[i] # loaded.participants[i]
           THEN d.participants[i] ELSE @[i]],
     !.status = IF d.status # loaded.status THEN d.status ELSE @,
     !.isCompleted = IF d.isCompleted # loaded.isCompleted THEN d.isCompleted ELSE @,
     !.isCancelled = IF d.isCancelled # loaded.isCancelled THEN d.isCancelled ELSE @,
     !.completedAt = IF d.completedAt # loaded.completedAt THEN d.completedAt ELSE @,
     !.cancelledAt = IF d.cancelledAt # loaded.cancelledAt THEN d.cancelledAt ELSE @]

\* a caller loads the split: Split.findBySplitId(splitId) resolves
LoadSplit(p) ==
  /\ pc[p] = "idle"
  /\ \E s \in splits :
       held' = [held EXCEPT ![p] = [NoHeld EXCEPT !.doc = s, !.loaded = s]]
  /\ pc' = [pc EXCEPT ![p] = "loaded"]
  /\ UNCHANGED <<splits, users, req, splitId, attempts, blockchainResult, creator,
                 outcome, trace, envInserts, docVars, webVars, routes, server>>

\* the caller's held.markParticipantPaid(walletAddress, txHash) settles
HeldMarkParticipantPaid(p, walletAddress, txHash) ==
  /\ pc[p] = "loaded"
  /\ pc' = [pc EXCEPT ![p] = "paid"]
  /\ LET d == held[p].doc
         i == FindParticipant(d, walletAddress)
         call == [held[p] EXCEPT !.walletAddress = walletAddress]
     IN IF i = 0
        THEN /\ held' = [held EXCEPT ![p] = [call EXCEPT !.error = "Participant not found"]]
             /\ UNCHANGED splits
        ELSE IF HasPaid(d, i)
        THEN /\ held' = [held EXCEPT ![p] =
                           [call EXCEPT !.error = "Participant has already paid"]]
             /\ UNCHANGED splits
        ELSE LET e == NormalizeSplit(
                        Completion([d EXCEPT !.participants[i].hasPaid = TRUE,
                                             !.participants[i].paidAt = 1,
                                             !.participants[i].paymentTxHash = txHash]))
             IN \/ /\ held' = [held EXCEPT ![p] = [call EXCEPT !.doc = e]]
                   /\ splits' = {IF s.splitId = e.splitId
                                 THEN SaveModified(e, held[p].loaded, s) ELSE s :
                                   s \in splits}
                \/ /\ held' = [held EXCEPT ![p] = [call EXCEPT !.doc = e,
                                                              !.error = "save failed"]]
                   /\ UNCHANGED splits
  /\ UNCHANGED <<users, req, splitId, attempts, blockchainResult, creator,
                 outcome, trace, envInserts, docVars, webVars, routes, server>>

\* the stored split the payers load: created with at least two participants,
\* all but the first two of them paid
PayWallets == {Alice, Bob, Mallory}

PaySplits ==
  {[d EXCEPT !.participants =
       [i \in 1..Len(@) |-> IF i <= Cardinality(Procs) THEN @[i]
                            ELSE [@[i] EXCEPT !.hasPaid = TRUE, !.paidAt = 1,
                                              !.paymentTxHash = toLowerCase(PaymentHash)]]] :
     d \in {c \in CreatedSplits : Len(c.participants) >= Cardinality(Procs)}}

InitPay ==
  /\ \E d \in PaySplits : splits = {d}
  /\ users = {User(0, toLowerCase(Alice), 1, 0)}
  /\ pc = [p \in Procs |-> "idle"]
  /\ req = [p \in Procs |-> NoReq]
  /\ splitId = [p \in Procs |-> 1]
  /\ attempts = [p \in Procs |-> 0]
  /\ blockchainResult = [p \in Procs |-> NoChain]
  /\ creator = [p \in Procs |-> NoUser]
  /\ outcome = [p \in Procs |-> NoOutcome]
  /\ trace = [p \in Procs |-> NoTrace]
  /\ envInserts = 0
  /\ doc = NoSplit
  /\ docCall = NoCall
  /\ httpReq = [p \in Procs |-> NoHttp]
  /\ res = [p \in Procs |-> NoRes]
  /\ listCall = NoList
  /\ routes = SplitRouter
  /\ held = [p \in Procs |-> NoHeld]
  /\ server = NoServer

NextPay ==
  \/ \E p \in Procs : LoadSplit(p)
  \/ \E p \in Procs : \E w \in PayWallets : HeldMarkParticipantPaid(p, w, PaymentHash)

SpecPay == InitPay /\ [][NextPay]_vars

\* a created split, its registration not yet confirmed, under every method of
\* the document: Alice and Bob pay, Bob is added, removed and reminded
OpsWallets == {Alice, Bob}

InitOps ==
  /\ InitDoc
  /\ Len(doc.participants) <= Cardinality(OpsWallets)
  /\ ~doc.isConfirmed

NextOps ==
  \/ \E w \in OpsWallets : MarkParticipantPaid(w, PaymentHash)
  \/ \E st \in Statuses : UpdateStatus(st)
  \/ CheckAndUpdateCompletion
  \/ AddParticipant(Part(Bob, 1))
  \/ RemoveParticipant(Bob)
  \/ SendReminder(Bob)

SpecOps == InitOps /\ [][NextOps]_vars

\* ------------------------------------------------ SplitService.getSplits
\* createdAt of a stored split (timestamps: true): the stores of the listing
\* specification hold splits inserted one after the other in the order of
\* their splitId
createdAt(s) == s.splitId

\* .sort({ createdAt: -1 }) of a query, and the Array sort of getSplits
RECURSIVE SortDesc(_)
SortDesc(S) ==
  IF S = {} THEN <<>>
  ELSE LET newest == CHOOSE x \in S : \A y \in S : createdAt(y) <= createdAt(x)
       IN <<newest>> \o SortDesc(S \ {newest})

\* .skip(n) of a query and result.slice(n); options.skip = 0 is no skip
Skip(seq, n) == SubSeq(seq, n + 1, Len(seq))

\* .limit(n) of a query and result.slice(0, n); options.limit = 0 is no limit
Limit(seq, n) == IF n = 0 \/ n > Len(seq) THEN seq ELSE SubSeq(seq, 1, n)

\* query.status = options.status when options.status is given
StatusMatches(s, options) == options.status = "" \/ s.status = options.status

\* Split.findByCreator(creatorAddress, options)
findByCreator(creatorAddress, options) ==
  Limit(Skip(SortDesc({s \in splits : /\ s.creatorAddress = toLowerCase(creatorAddress)
                                      /\ StatusMatches(s, options)}),
             options.skip),
        options.limit)

\* Split.findByParticipant(walletAddress, options)
findByParticipant(walletAddress, options) ==
  Limit(Skip(SortDesc({s \in splits :
                        /\ \E i \in 1..Len(s.participants) :
                             s.participants[i].walletAddress = toLowerCase(walletAddress)
                        /\ StatusMatches(s, options)}),
             options.skip),
        options.limit)

\* the values of splitMap: the participant splits, and the created splits whose
\* splitId no participant split overwrote
SplitMap(createdSplits, participantSplits) ==
  {participantSplits[i] : i \in 1..Len(participantSplits)}
    \cup {createdSplits[i] : i \in {k \in 1..Len(createdSplits) :
             \A j \in 1..Len(participantSplits) :
               participantSplits[j].splitId # createdSplits[k].splitId}}

\* the splits getSplits resolves with, in order, before their enrichment
GetSplits(walletAddress, options) ==
  Limit(Skip(SortDesc(SplitMap(findByCreator(toLowerCase(walletAddress), options),
                               findByParticipant(toLowerCase(walletAddress), options))),
             options.skip),
        options.limit)

\* splitService.getSplits(walletAddress, options) settles
GetSplitsCall ==
  /\ ~listCall.called
  /\ \/ listCall' =
          IF ~AddressFormat(toLowerCase(listCall.walletAddress))
          THEN [listCall EXCEPT !.called = TRUE,
                                !.error = "Invalid wallet address format"]
          ELSE [listCall EXCEPT
                  !.called = TRUE,
                  !.result = [i \in 1..Len(GetSplits(listCall.walletAddress, listCall)) |->
                                GetSplits(listCall.walletAddress, listCall)[i].splitId]]
     \/ /\ AddressFormat(toLowerCase(listCall.walletAddress))
        /\ listCall' = [listCall EXCEPT !.called = TRUE,
                                        !.error = "persistence unavailable"]
  /\ UNCHANGED <<splits, users, procVars, envInserts, docVars, httpReq, res, sysVars>>

\* the splits of the listing specification, in the order of their creation
ListSplit(k, creatorAddress, ps, confirmed) ==
  NewSplit(k, [defined |-> TRUE, splitId |-> k, splitAddress |-> Addr(k, TRUE),
               txHash |-> Hash(k), isConfirmed |-> confirmed],
           creatorAddress, Request(creatorAddress, ps, Len(ps)))

ListSplits ==
  {ListSplit(1, Alice, <<Part(Bob, 1)>>, TRUE),
   ListSplit(2, Mallory, <<Part(Alice, 1), Part(Bob, 1)>>, TRUE),
   ListSplit(3, Alice, <<Part(Alice, 1), Part(Mallory, 1)>>, FALSE),
   ListSplit(4, Alice, <<Part(Bob, 1)>>, TRUE)}

InitList ==
  /\ splits \in SUBSET ListSplits
  /\ \E w \in {Alice, Bob, Mallory, BadAddr} : \E st \in {"", "active", "pending"} :
       \E l \in 0..MaxPage : \E k \in 0..MaxPage :
         listCall = [NoList EXCEPT !.walletAddress = w, !.status = st,
                                   !.limit = l, !.skip = k]
  /\ users = {User(0, toLowerCase(Alice), 0, 0)}
  /\ pc = [p \in Procs |-> "idle"]
  /\ req = [p \in Procs |-> NoReq]
  /\ splitId = [p \in Procs |-> 1]
  /\ attempts = [p \in Procs |-> 0]
  /\ blockchainResult = [p \in Procs |-> NoChain]
  /\ creator = [p \in Procs |-> NoUser]
  /\ outcome = [p \in Procs |-> NoOutcome]
  /\ trace = [p \in Procs |-> NoTrace]
  /\ envInserts = 0
  /\ doc = NoSplit
  /\ docCall = NoCall
  /\ httpReq = [p \in Procs |-> NoHttp]
  /\ res = [p \in Procs |-> NoRes]
  /\ routes = SplitRouter
  /\ held = [p \in Procs |-> NoHeld]
  /\ server = NoServer

NextList == GetSplitsCall

SpecList == InitList /\ [][NextList]_vars

\* ------------------------------------- authHook, AuthService.verifyCredentials
verifySignatureAny(signature, expectedAddress) == signature.signer # 0

\* verifySignature: the address ethers.verifyMessage recovers (a checksummed
\* text), compared in lower case; false when verifyMessage throws
verifySignature(signature, expectedAddress) ==
  /\ signature.signer # 0
  /\ toLowerCase(Addr(signature.signer, TRUE)) = toLowerCase(expectedAddress)

\* the error verifyCredentials throws before its first await; "" when none
CredentialError(walletAddress, signature) ==
  IF ~AddressFormat(toLowerCase(walletAddress))
  THEN "Invalid wallet address format"
  ELSE IF ~signature.ok
  THEN "Invalid signature format"
  ELSE IF ~verifySignature(signature, toLowerCase(walletAddress))
  THEN "Invalid signature: Signature does not match the wallet address"
  ELSE ""

\* a response is sent and the request is over
Send(p, r) ==
  /\ res' = [res EXCEPT ![p] = r]
  /\ pc' = [pc EXCEPT ![p] = "sent"]

\* POST /auth/hook arrives: authHook runs, and verifyCredentials up to
\* usersModel.findByWallet
AuthHook(p, walletAddress, signature) ==
  /\ pc[p] = "idle"
  /\ httpReq' = [httpReq EXCEPT ![p] = [NoHttp EXCEPT !.route = "auth",
                                                      !.walletAddress = walletAddress,
                                                      !.signature = signature]]
  /\ IF ~signature.present \/ walletAddress = EmptyAddr
     THEN Send(p, Json(400, "Signature and Wallet address are required", NoToken))
     ELSE IF CredentialError(walletAddress, signature) # ""
     THEN Send(p, errorHandler(Err(CredentialError(walletAddress, signature))))
     ELSE /\ pc' = [pc EXCEPT ![p] = "authFind"]
          /\ UNCHANGED res
  /\ UNCHANGED <<splits, users, req, splitId, attempts, blockchainResult, creator,
                 outcome, trace, envInserts, docVars, listCall, sysVars>>

\* usersModel.findByWallet(normalizedAddress) resolves or rejects
AuthFindByWallet(p) ==
  /\ pc[p] = "authFind"
  /\ \/ \E u \in findByWallet(httpReq[p].walletAddress) :
          /\ httpReq' = [httpReq EXCEPT ![p].user = Loaded(u)]
          /\ pc' = [pc EXCEPT ![p] = "authActivity"]
          /\ UNCHANGED res
     \/ /\ findByWallet(httpReq[p].walletAddress) = {}
        /\ pc' = [pc EXCEPT ![p] = "authCreate"]
        /\ UNCHANGED <<httpReq, res>>
     \/ /\ Send(p, errorHandler(Err("persistence unavailable")))
        /\ UNCHANGED httpReq
  /\ UNCHANGED <<splits, users, req, splitId, attempts, blockchainResult, creator,
                 outcome, trace, envInserts, docVars, listCall, sysVars>>

UniqueUserMutant(w, coll) == TRUE

\* the unique index walletAddress_unique
UniqueUser(w, coll) == \A u \in coll : u.walletAddress # w

\* usersModel.create({ walletAddress: normalizedAddress, ... }) resolves or
\* rejects; the _id of the new document is the one of the request
AuthCreateUser(p) ==
  /\ pc[p] = "authCreate"
  /\ LET user == User(p, toLowerCase(httpReq[p].walletAddress), 0, 1)
     IN \/ /\ UniqueUser(user.walletAddress, users)
           /\ users' = users \cup {user}
           /\ httpReq' = [httpReq EXCEPT ![p].user = Loaded(user)]
           /\ pc' = [pc EXCEPT ![p] = "authActivity"]
           /\ UNCHANGED res
        \/ /\ ~UniqueUser(user.walletAddress, users)
           /\ Send(p, errorHandler(Err("E11000 duplicate key error")))
           /\ UNCHANGED <<users, httpReq>>
        \/ /\ Send(p, errorHandler(Err("persistence unavailable")))
           /\ UNCHANGED <<users, httpReq>>
  /\ UNCHANGED <<splits, req, splitId, attempts, blockchainResult, creator,
                 outcome, trace, envInserts, docVars, listCall, sysVars>>

\* UserSchema.methods.updateActivity: this.lastActiveAt = new Date(), save()
updateActivity(u, coll) ==
  {IF v.userId = u.userId THEN [v EXCEPT !.lastActiveAt = 1] ELSE v : v \in coll}

\* user.updateActivity() resolves or rejects; the token signed before it is
\* returned and sent
AuthUpdateActivity(p) ==
  /\ pc[p] = "authActivity"
  /\ \/ /\ users' = updateActivity(httpReq[p].user, users)
        /\ Send(p, Json(200, "User verified successfully",
                        Token(TRUE, httpReq[p].user.walletAddress)))
     \/ /\ Send(p, errorHandler(Err("persistence unavailable")))
        /\ UNCHANGED users
  /\ UNCHANGED <<splits, req, splitId, attempts, blockchainResult, creator,
                 outcome, trace, envInserts, docVars, httpReq, listCall, sysVars>>

\* the wallet addresses and signatures of the auth requests
AuthWallets == {Alice, Bob, Addr(2, TRUE), BadAddr, EmptyAddr}
AuthSignatures == {NoSig, Sig(FALSE, 1), Sig(TRUE, 0), Sig(TRUE, 1), Sig(TRUE, 2)}

NextAuth ==
  \E p \in Procs :
    \/ \E w \in AuthWallets : \E sig \in AuthSignatures : AuthHook(p, w, sig)
    \/ AuthFindByWallet(p)
    \/ AuthCreateUser(p)
    \/ AuthUpdateActivity(p)

SpecAuth == Init /\ [][NextAuth]_vars

\* --------------------------------------- verifyToken and the split handlers
\* getSplitById(id): Split.findBySplitId(id)
getSplitById(id) == findBySplitId(id)

HasBearerMutant(authorization) == authorization.scheme # ""

\* authHeader && authHeader.startsWith('Bearer ')
HasBearer(authorization) == authorization.scheme = "Bearer"

\* a request for a split route arrives: verifyToken runs up to
\* usersModel.findByWallet (config.jwt.secret is set: the deployment signs its
\* tokens with it)
VerifyToken(p, r) ==
  /\ pc[p] = "idle"
  /\ httpReq' = [httpReq EXCEPT ![p] = r]
  /\ IF ~HasBearer(r.authorization)
     THEN Send(p, errorHandler(CustomErr(403, "No Bearer token provided")))
     ELSE IF ~r.authorization.token.valid
     THEN Send(p, errorHandler(CustomErr(403, "Invalid or expired token")))
     ELSE /\ pc' = [pc EXCEPT ![p] = "verifyFind"]
          /\ UNCHANGED res
  /\ UNCHANGED <<splits, users, req, splitId, attempts, blockchainResult, creator,
                 outcome, trace, envInserts, docVars, listCall, sysVars>>

\* next() of verifyToken: the controller of the route runs up to its first
\* await, with req.user = u
SplitHandler(p, u) ==
  IF httpReq[p].route = "create"
  THEN IF ~httpReq[p].body.description \/ Len(httpReq[p].body.participants) = 0
       THEN /\ Send(p, Json(400, "Missing required fields", NoToken))
            /\ UNCHANGED <<req, outcome>>
       ELSE /\ CreateSplitStart(p, u.walletAddress, httpReq[p].body)
            /\ UNCHANGED res
  ELSE IF httpReq[p].route = "get" /\ httpReq[p].splitId = 0
  THEN /\ Send(p, Json(400, "Invalid split ID", NoToken))
       /\ UNCHANGED <<req, outcome>>
  ELSE IF httpReq[p].route = "none"
  THEN /\ Send(p, Json(404, "Route not found", NoToken))
       /\ UNCHANGED <<req, outcome>>
  ELSE /\ pc' = [pc EXCEPT ![p] = "read"]
       /\ UNCHANGED <<req, outcome, res>>

\* usersModel.findByWallet(decodedData.walletAddress) resolves or rejects
VerifyFindUser(p) ==
  /\ pc[p] = "verifyFind"
  /\ \/ \E u \in findByWallet(httpReq[p].authorization.token.walletAddress) :
          /\ httpReq' = [httpReq EXCEPT ![p].user = Loaded(u), ![p].handled = TRUE]
          /\ SplitHandler(p, Loaded(u))
     \/ /\ findByWallet(httpReq[p].authorization.token.walletAddress) = {}
        /\ Send(p, errorHandler(CustomErr(401, "User not found")))
        /\ UNCHANGED <<httpReq, req, outcome>>
     \/ /\ httpReq' = [httpReq EXCEPT ![p].lookupThrew = TRUE]
        /\ Send(p, errorHandler(CustomErr(403, "Invalid or expired token")))
        /\ UNCHANGED <<req, outcome>>
  /\ UNCHANGED <<splits, users, splitId, attempts, blockchainResult, creator,
                 trace, envInserts, docVars, listCall, sysVars>>

\* splitService.createSplit settled: the createSplit controller answers, or
\* hands the error to errorHandler
CreateSplitRespond(p) ==
  /\ pc[p] = "done"
  /\ httpReq[p].route = "create"
  /\ IF outcome[p].kind = "ok"
     THEN Send(p, Json(201, "Split created successfully", NoToken))
     ELSE Send(p, errorHandler(Err(outcome[p].msg)))
  /\ UNCHANGED <<splits, users, req, splitId, attempts, blockchainResult, creator,
                 outcome, trace, envInserts, docVars, httpReq, listCall, sysVars>>

\* the service call of a reading controller settled: the controller answers,
\* or hands the error to errorHandler
ReadRespond(p) ==
  /\ pc[p] = "read"
  /\ \/ /\ httpReq[p].route = "get"
        /\ getSplitById(httpReq[p].splitId) = {}
        /\ Send(p, Json(404, "Split not found", NoToken))
     \/ /\ httpReq[p].route = "get" => getSplitById(httpReq[p].splitId) # {}
        /\ Send(p, Json(200, "retrieved successfully", NoToken))
     \/ Send(p, errorHandler(Err("persistence unavailable")))
  /\ UNCHANGED <<splits, users, req, splitId, attempts, blockchainResult, creator,
                 outcome, trace, envInserts, docVars, httpReq, listCall, sysVars>>

\* the Authorization headers, bodies and requests of the split routes
Headers ==
  {Authorization("", NoToken),
   Authorization("Basic", Token(TRUE, toLowerCase(Alice))),
   Authorization("Bearer", Token(FALSE, toLowerCase(Alice))),
   Authorization("Bearer", Token(TRUE, toLowerCase(Alice))),
   Authorization("Bearer", Token(TRUE, Bob))}

Bodies ==
  {Body(TRUE, ps, SumAmounts(ps) + d) : ps \in ParticipantInputs, d \in {0, 2}}
    \cup {Body(FALSE, PartList(1), 1)}

HttpRequest(route, h, id, b) ==
  [NoHttp EXCEPT !.route = route, !.authorization = h, !.splitId = id, !.body = b]

HttpRequests ==
  {HttpRequest("create", h, 0, b) : h \in Headers, b \in Bodies}
    \cup {HttpRequest("get", h, id, NoBody) : h \in Headers, id \in 0..2}
    \cup {HttpRequest(route, h, 0, NoBody) :
            route \in {"list", "creator", "participant"}, h \in Headers}

InitHttp ==
  /\ splits = {EnvSplit(1)}
  /\ users = {User(0, toLowerCase(Alice), 0, 0)}
  /\ pc = [p \in Procs |-> "idle"]
  /\ req = [p \in Procs |-> NoReq]
  /\ splitId = [p \in Procs |-> 1]
  /\ attempts = [p \in Procs |-> 0]
  /\ blockchainResult = [p \in Procs |-> NoChain]
  /\ creator = [p \in Procs |-> NoUser]
  /\ outcome = [p \in Procs |-> NoOutcome]
  /\ trace = [p \in Procs |-> NoTrace]
  /\ envInserts = 0
  /\ doc = NoSplit
  /\ docCall = NoCall
  /\ httpReq = [p \in Procs |-> NoHttp]
  /\ res = [p \in Procs |-> NoRes]
  /\ listCall = NoList
  /\ routes = SplitRouter
  /\ held = [p \in Procs |-> NoHeld]
  /\ server = NoServer

\* one request to a split route
NextHttp ==
  \/ \E r \in HttpRequests : VerifyToken(1, r)
  \/ VerifyFindUser(1)
  \/ FindMaxSplit(1)
  \/ ProbeSplitId(1)
  \/ DeploySplitContract(1)
  \/ FindByTxHash(1)
  \/ SplitCreate(1)
  \/ FindCreator(1)
  \/ IncrementSplitCreated(1)
  \/ CreateSplitRespond(1)
  \/ ReadRespond(1)

SpecHttp == InitHttp /\ [][NextHttp]_vars

\* ------------------------------------------------------- route matching
\* a route path matches a request path: literally, or as the one-segment
\* parameter :splitId
PathMatches(routePath, path) ==
  \/ routePath = path
  \/ routePath = "/:splitId" /\ path # "/"

\* the handler of the first registered route that matches, "none" when no
\* route does (the 404 handler of the app answers)
Resolve(table, method, path) ==
  LET hits == {i \in 1..Len(table) :
                 table[i].method = method /\ PathMatches(table[i].path, path)}
  IN IF hits = {} THEN "none"
     ELSE table[CHOOSE i \in hits : \A j \in hits : i <= j].handler

\* parseInt(req.params.splitId), 0 for NaN
ParseSplitId(path) == IF path = "/1" THEN 1 ELSE IF path = "/2" THEN 2 ELSE 0

Paths == {"/create", "/", "/creator", "/participant", "/1", "/2", "/abc"}

\* a request to the mounted split router arrives: verifyToken runs, and the
\* request is bound for the handler the route table resolves it to
Dispatch(p, method, path, h, b) ==
  VerifyToken(p, [HttpRequest(Resolve(routes, method, path), h, ParseSplitId(path), b)
                    EXCEPT !.method = method, !.path = path])

InitRoute ==
  /\ splits = {EnvSplit(1)}
  /\ users = {User(0, toLowerCase(Alice), 0, 0)}
  /\ pc = [p \in Procs |-> "idle"]
  /\ req = [p \in Procs |-> NoReq]
  /\ splitId = [p \in Procs |-> 1]
  /\ attempts = [p \in Procs |-> 0]
  /\ blockchainResult = [p \in Procs |-> NoChain]
  /\ creator = [p \in Procs |-> NoUser]
  /\ outcome = [p \in Procs |-> NoOutcome]
  /\ trace = [p \in Procs |-> NoTrace]
  /\ envInserts = 0
  /\ doc = NoSplit
  /\ docCall = NoCall
  /\ httpReq = [p \in Procs |-> NoHttp]
  /\ res = [p \in Procs |-> NoRes]
  /\ listCall = NoList
  /\ routes \in {SplitRouter, SplitRouterOther}
  /\ held = [p \in Procs |-> NoHeld]
  /\ server = NoServer

\* one request to the split router as it was mounted
NextRoute ==
  \/ \E method \in {"GET", "POST"}, path \in Paths, h \in Headers,
        b \in {Body(TRUE, PartList(1), 1), Body(FALSE, PartList(1), 1)} :
       Dispatch(1, method, path, h, b)
  \/ VerifyFindUser(1)
  \/ FindMaxSplit(1)
  \/ ProbeSplitId(1)
  \/ DeploySplitContract(1)
  \/ FindByTxHash(1)
  \/ SplitCreate(1)
  \/ FindCreator(1)
  \/ IncrementSplitCreated(1)
  \/ CreateSplitRespond(1)
  \/ ReadRespond(1)

SpecRoute == InitRoute /\ [][NextRoute]_vars

\* ------------------------------------------------------- ServerManager
\* process.exit(code): the process is gone, nothing of it runs afterwards
Exit(code) == server' = [server EXCEPT !.exits = @ + 1, !.exitCode = code,
                                       !.closing = FALSE]

Running == server.exits = 0

NeverShuttingDown(s) == FALSE

\* the test of shutdown: if (this.isShuttingDown) return
AlreadyShuttingDown(s) == s.isShuttingDown

\* start() up to its first await: validateConfig, setupProcessHandlers, and
\* connectDB is called
Start ==
  /\ Running /\ server.phase = "new"
  /\ \/ server' = [server EXCEPT !.phase = "connecting"]
     \/ Exit(1)
  /\ UNCHANGED <<splits, users, procVars, envInserts, docVars, webVars, routes, held>>

\* mongoose.connect settles: connectDB exits on a failure, else server.start()
\* runs and exits on a failure
ConnectSettles ==
  /\ Running /\ server.phase = "connecting"
  /\ \/ server' = [server EXCEPT !.phase = "running"]
     \/ Exit(1)
  /\ UNCHANGED <<splits, users, procVars, envInserts, docVars, webVars, routes, held>>

Events == {"SIGTERM", "SIGINT", "uncaughtException", "unhandledRejection"}

\* the process receives an event its handlers are registered for: shutdown
\* runs up to its await of closeDB
Shutdown(e) ==
  /\ Running /\ server.phase # "new"
  /\ Len(server.events) < MaxEvents
  /\ IF AlreadyShuttingDown(server)
     THEN server' = [server EXCEPT !.events = Append(@, e)]
     ELSE server' = [server EXCEPT !.events = Append(@, e),
                                   !.isShuttingDown = TRUE,
                                   !.closeCalls = @ + 1,
                                   !.closing = TRUE]
  /\ UNCHANGED <<splits, users, procVars, envInserts, docVars, webVars, routes, held>>

\* mongoose.connection.close() settles: closeDB returns whether it resolved or
\* rejected, and shutdown exits
CloseSettles ==
  /\ Running /\ server.closing
  /\ Exit(0)
  /\ UNCHANGED <<splits, users, procVars, envInserts, docVars, webVars, routes, held>>

NextShutdown ==
  \/ Start
  \/ ConnectSettles
  \/ \E e \in Events : Shutdown(e)
  \/ CloseSettles

\* a close of the connection that was started settles
SpecShutdown == Init /\ [][NextShutdown]_vars /\ WF_vars(CloseSettles)

\* ------------------------------------------------------------ properties
Done(p) == pc[p] = "done"

\* C1 (as claimed): a createSplit call whose transaction hash is already in the
\* store ends in an error reported to the caller, and the store holds exactly
\* one split with that hash.
C1_DuplicateTxHashIsConflict ==
  \A p \in Procs :
    (Done(p) /\ trace[p].txFound) =>
      /\ outcome[p].kind = "error"
      /\ Cardinality(findByTxHash(blockchainResult[p].txHash)) = 1

\* C2 (as claimed): every createSplit call that returned a result can be read
\* back with getSplitById(splitId): the split of that call, creator and
\* participants as submitted, status pending or active, nobody paid.
ReadsBack(p) ==
  \E s \in getSplitById(outcome[p].splitId) :
    /\ s.txHash = toLowerCase(outcome[p].txHash)
    /\ s.contractAddress = toLowerCase(outcome[p].contractAddress)
    /\ s.creatorAddress = toLowerCase(req[p].creatorAddress)
    /\ s.totalAmount = req[p].totalAmount
    /\ Len(s.participants) = Len(req[p].participants)
    /\ \A i \in 1..Len(s.participants) :
         /\ s.participants[i].walletAddress = toLowerCase(req[p].participants[i].walletAddress)
         /\ s.participants[i].amountDue = req[p].participants[i].amountDue
         /\ s.participants[i].hasPaid = FALSE
    /\ s.status \in {"pending", "active"}

C2_EveryResultReadsBack ==
  \A p \in Procs : (Done(p) /\ outcome[p].kind = "ok") => ReadsBack(p)

\* C2 (amended): every createSplit call whose Split.create succeeded and that
\* returned a result can be read back with getSplitById(splitId): the split of
\* that call, creator and participants as submitted (addresses lower-cased),
\* status pending or active, nobody paid.
C2_PersistedResultReadsBack ==
  \A p \in Procs :
    (Done(p) /\ outcome[p].kind = "ok" /\ trace[p].persisted) => ReadsBack(p)

C2_Witness ==
  \E p \in Procs :
    /\ Done(p) /\ outcome[p].kind = "ok" /\ trace[p].persisted
    /\ req[p].creatorAddress = Alice
    /\ blockchainResult[p].splitId # 0
    /\ blockchainResult[p].splitId # splitId[p]

\* C3: no two persisted splits have the same splitId, whatever the interleaving
\* of the concurrent createSplit calls.
C3_SplitIdUnique ==
  \A s \in splits : \A t \in splits : s.splitId = t.splitId => s = t

C3_Witness ==
  \E p \in Procs : \E q \in Procs :
    /\ p # q
    /\ trace[p].persisted /\ trace[q].persisted
    /\ trace[p].firstId = trace[q].firstId
    /\ attempts[p] > 0

\* C4 (as claimed): the allocation starts at max+1 (1 on an empty store), makes
\* at most 100 probes, and fails with 'Unable to generate unique split ID'
\* exactly when every candidate it examined was occupied: a call that found its
\* last candidate free goes on with that id.
C4_ProbeFailsOnlyWhenExhausted ==
  \A p \in Procs :
    /\ attempts[p] <= MaxProbeAttempts
    /\ trace[p].probes <= attempts[p] + 1
    /\ (Done(p) /\ outcome[p].msg = "Unable to generate unique split ID") =>
         ~trace[p].lastProbeFree

\* the request of a call passes every check but the one on the participant count
OtherInputsValid(r) ==
  /\ AddressFormat(toLowerCase(r.creatorAddress))
  /\ Abs(SumAmounts(r.participants) - r.totalAmount) <= Tolerance
  /\ r.totalAmount >= MinTotalAmount
  /\ \A i \in 1..Len(r.participants) :
       AddressFormat(toLowerCase(r.participants[i].walletAddress))

CountErrors ==
  {"At least one participant is required", "Maximum 50 participants allowed"}
EnvironmentErrors ==
  {"persistence unavailable", "Failed to deploy split contract",
   "Unable to generate unique split ID"}

Rejected(p) ==
  /\ Done(p)
  /\ outcome[p].kind = "error"
  /\ ~trace[p].chainCalled
  /\ ~trace[p].persisted
  /\ splits = {}

\* C5: a request with 0 or more than 50 participants is rejected and nothing is
\* persisted; a request with 1 to 50 participants, other inputs valid, passes
\* the participant-count check, is accepted by the validators of Split.create,
\* and can only fail for a failure of the store or of the blockchain call.
C5_ParticipantCount ==
  \A p \in Procs :
    pc[p] # "idle" =>
      /\ (Len(req[p].participants) = 0 \/ Len(req[p].participants) > MaxParticipants)
           => Rejected(p)
      /\ (Len(req[p].participants) \in 1..MaxParticipants /\ OtherInputsValid(req[p])) =>
           /\ outcome[p].msg \notin CountErrors
           /\ outcome[p].kind = "error" => outcome[p].msg \in EnvironmentErrors
           /\ pc[p] = "create" => ValidateSplit(CallSplit(p))

C5_Witness ==
  \E p \in Procs :
    /\ Len(req[p].participants) = MaxParticipants
    /\ trace[p].persisted
    /\ Done(p) /\ outcome[p].kind = "ok"

\* the request of a call passes every check but the one on the amounts
InputsValidButAmount(r) ==
  /\ AddressFormat(toLowerCase(r.creatorAddress))
  /\ Len(r.participants) \in 1..MaxParticipants
  /\ r.totalAmount >= MinTotalAmount
  /\ \A i \in 1..Len(r.participants) :
       AddressFormat(toLowerCase(r.participants[i].walletAddress))

AmountGap(r) == Abs(SumAmounts(r.participants) - r.totalAmount)

C8_StatFailureSwallowed ==
  \A p \in Procs :
    (Done(p) /\ trace[p].statFailed) =>
      /\ outcome[p].kind = "ok"
      /\ \E s \in splits :
           /\ s = CallSplit(p)
           /\ outcome[p].splitId = s.splitId
           /\ outcome[p].contractAddress = s.contractAddress
           /\ outcome[p].txHash = s.txHash

C8_Witness ==
  \E p \in Procs : Done(p) /\ trace[p].statFailed /\ creator[p].defined

\* C9 (as claimed): once all calls are done, the creator's totalSplitsCreated
\* has grown by the number of calls of that creator whose stat update was
\* saved without error.
StatSavers(w) ==
  {p \in Procs : trace[p].statSaved /\ toLowerCase(req[p].creatorAddress) = w}

C9_NoLostIncrement ==
  (\A p \in Procs : Done(p)) =>
    \A u \in users : u.totalSplitsCreated = Cardinality(StatSavers(u.walletAddress))

\* C10: a markParticipantPaid call that leaves every participant of the
\* document paid leaves it with status completed, isCompleted true and
\* completedAt set; when the call resolved, the stored split is that document.
C10_AllPaidCompletes ==
  [][(docCall'.op = "markParticipantPaid" /\ doc' # doc /\ AllPaid(doc')) =>
       /\ doc'.status = "completed"
       /\ doc'.isCompleted
       /\ doc'.completedAt = 1
       /\ docCall'.error = "" => findBySplitId(doc.splitId)' = {doc'}]_vars

C10_Witness ==
  /\ docCall.op = "markParticipantPaid"
  /\ docCall.error = ""
  /\ Len(doc.participants) > 1
  /\ AllPaid(doc)
  /\ doc.status = "completed"
  /\ doc.isCancelled = FALSE
  /\ doc.cancelledAt = 1

\* C11: checkAndUpdateCompletion is idempotent: called on a document that is
\* already completed, or called again right after a checkAndUpdateCompletion
\* call, it changes no field of the document and writes nothing to the store.
C11_CompletionIdempotent ==
  [][(docCall'.op = "checkAndUpdateCompletion"
        /\ (doc.isCompleted \/ docCall.op = "checkAndUpdateCompletion")) =>
       (doc' = doc /\ splits' = splits)]_vars

\* the call found a completed document whose completion never reached the
\* store (the save of an earlier call failed) and still wrote nothing
C11_Witness ==
  /\ docCall = [op |-> "checkAndUpdateCompletion", error |-> "", saved |-> FALSE]
  /\ doc.isCompleted
  /\ AllPaid(doc)
  /\ \E s \in findBySplitId(doc.splitId) : ~s.isCompleted

\* the status changes the claim allows
StatusStep(a, b) ==
  \/ a = b
  \/ a = "pending" /\ b = "active"
  \/ a = "active" /\ b = "completed"
  \/ a \in {"pending", "active"} /\ b = "cancelled"

\* C12 (as claimed): the status of a stored split only changes from pending to
\* active, from active to completed, or from pending or active to cancelled.
C12_StatusTransitions ==
  [][\A s \in splits : \A t \in splits' :
       s.splitId = t.splitId => StatusStep(s.status, t.status)]_vars
\* the lower-cased wallet addresses of the participants of d are pairwise distinct
DistinctParticipants(d) ==
  \A i, j \in 1..Len(d.participants) :
    i # j => toLowerCase(d.participants[i].walletAddress)
               # toLowerCase(d.participants[j].walletAddress)

\* C13 (as claimed): in every persisted split the lower-cased participant
\* wallet addresses are pairwise distinct; createSplit persists no split whose
\* input lists the same address twice.
C13_ParticipantsDistinct == \A s \in splits : DistinctParticipants(s)
\* C14: every persisted split has between 1 and 50 participants; a call of
\* addParticipant on a document that holds 50 participants or more, and a
\* call of removeParticipant on a document that holds a single participant,
\* fail and leave the store unchanged.
C14_ParticipantBounds ==
  /\ [](\A s \in splits : Len(s.participants) \in 1..MaxParticipants)
  /\ [][((\/ /\ docCall'.op = "addParticipant"
              /\ Len(doc.participants) >= MaxParticipants
           \/ /\ docCall'.op = "removeParticipant"
              /\ Len(doc.participants) = 1)
        ) => (docCall'.error # "" /\ splits' = splits)]_vars

\* the save of a 51st participant was refused: the instance holds 51, the
\* stored split still its 50
C14_Witness ==
  /\ docCall.op = "addParticipant"
  /\ docCall.error = "save failed"
  /\ Len(doc.participants) = MaxParticipants + 1
  /\ \E s \in findBySplitId(doc.splitId) : Len(s.participants) = MaxParticipants
\* the splits the address created or takes part in, with the status asked for
OwnSplits(w, options) ==
  {s \in splits :
     /\ \/ s.creatorAddress = toLowerCase(w)
        \/ \E i \in 1..Len(s.participants) :
             s.participants[i].walletAddress = toLowerCase(w)
     /\ StatusMatches(s, options)}

\* C15 (as claimed): getSplits resolves with the splits the address created or
\* takes part in (with the status asked for), each once, newest first, reduced
\* by skip and limit applied once to that merged list.
C15_GetSplitsPagesOnce ==
  (listCall.called /\ listCall.error = "") =>
    LET expected == Limit(Skip(SortDesc(OwnSplits(listCall.walletAddress, listCall)),
                               listCall.skip),
                          listCall.limit)
    IN listCall.result = [i \in 1..Len(expected) |-> expected[i].splitId]
\* the signature of an auth request is not one made by the key of its wallet
Mismatch(p) ==
  /\ httpReq[p].route = "auth"
  /\ \/ httpReq[p].signature.signer = 0
     \/ httpReq[p].signature.signer # httpReq[p].walletAddress.id

\* C16: an authentication attempt whose signature does not verify for its
\* wallet address never reaches the user store: it ends in the step it
\* arrives in, that step leaves the users unchanged, no user is loaded or
\* created for it and its response carries no credential.
C16_FailedAuthLeavesUsers ==
  /\ [](\A p \in Procs : Mismatch(p) =>
          /\ pc[p] = "sent"
          /\ res[p].token = NoToken
          /\ res[p].status # 200
          /\ ~httpReq[p].user.defined)
  /\ [][\A p \in Procs : (Mismatch(p)' /\ pc'[p] # pc[p]) => users' = users]_vars

\* a well-formed signature by another key for a wallet without a user record
C16_Witness ==
  \E p \in Procs :
    /\ Mismatch(p)
    /\ httpReq[p].walletAddress.ok
    /\ httpReq[p].signature.ok
    /\ httpReq[p].signature.signer # 0
    /\ pc[p] = "sent"
    /\ findByWallet(httpReq[p].walletAddress) = {}

\* C17 (as claimed): an auth request with a well-formed wallet address and a
\* well-formed signature that does not match the wallet is answered with a
\* client-error status (400..499).
C17_MismatchIsClientError ==
  \A p \in Procs :
    (/\ pc[p] = "sent"
     /\ Mismatch(p)
     /\ httpReq[p].walletAddress.ok
     /\ httpReq[p].signature.present
     /\ httpReq[p].signature.ok) => res[p].status \in 400..499

\* C19: there is at most one user record per normalized wallet address, also
\* when two authentications for an unknown wallet both find no user and both
\* create one; a create for a wallet address that is stored fails and adds
\* nothing.
C19_OneUserPerWallet ==
  /\ [](\A u, v \in users :
          toLowerCase(u.walletAddress) = toLowerCase(v.walletAddress) => u = v)
  /\ [][\A p \in Procs :
          (/\ pc[p] = "authCreate"
           /\ pc'[p] # "authCreate"
           /\ findByWallet(httpReq[p].walletAddress) # {}) =>
            (users' = users /\ pc'[p] = "sent" /\ res'[p].status # 200)]_vars

\* two authentications for one unknown wallet, written in different case:
\* one created the user, the create of the other was refused
C19_Witness ==
  \E p, q \in Procs :
    /\ p # q
    /\ httpReq[p].walletAddress # httpReq[q].walletAddress
    /\ toLowerCase(httpReq[p].walletAddress) = toLowerCase(httpReq[q].walletAddress)
    /\ res[p].status = 200
    /\ res[p].token = Token(TRUE, toLowerCase(httpReq[q].walletAddress))
    /\ res[q].message = "E11000 duplicate key error"
    /\ Cardinality(findByWallet(httpReq[q].walletAddress)) = 1
\* the request was stopped by the controller's own test or by the validation
\* of createSplit
ValidationRejected(p) ==
  /\ httpReq[p].route = "create"
  /\ httpReq[p].handled
  /\ pc[p] = "sent"
  /\ \/ ~httpReq[p].body.description
     \/ Len(httpReq[p].body.participants) = 0
     \/ ValidationError(httpReq[p].user.walletAddress, httpReq[p].body) # ""

\* C18 (as claimed): every split-creation request rejected for a validation
\* reason is answered with a client-error status (400..499) and a message.
C18_ValidationIsClientError ==
  \A p \in Procs :
    ValidationRejected(p) => (res[p].status \in 400..499 /\ res[p].message # "")

\* the request carries a Bearer token that verifies and names a stored user
CredentialOK(p) ==
  /\ httpReq[p].authorization.scheme = "Bearer"
  /\ httpReq[p].authorization.token.valid
  /\ \E u \in users :
       u.walletAddress = toLowerCase(httpReq[p].authorization.token.walletAddress)

SplitRoutes == {"create", "get", "list", "creator", "participant"}

\* C20: a split endpoint handler runs for a request only when the request
\* carries a Bearer credential that verifies and whose walletAddress is the
\* one of a stored user; every other request to a split route ends, without
\* a handler having run, with a client-error status (400..499).
C20_HandlersBehindVerifyToken ==
  \A p \in Procs :
    httpReq[p].route \in SplitRoutes =>
      /\ (httpReq[p].handled \/ pc[p] \notin {"idle", "verifyFind", "sent"}
            \/ res[p].status \in {200, 201, 404}) => CredentialOK(p)
      /\ ~CredentialOK(p) => (~httpReq[p].handled /\ pc[p] \in {"verifyFind", "sent"})
      /\ (~CredentialOK(p) /\ pc[p] = "sent") => res[p].status \in 400..499

\* a create request with a good credential went through the handler
C20_Witness ==
  \E p \in Procs :
    /\ httpReq[p].route = "create"
    /\ httpReq[p].handled
    /\ CredentialOK(p)
    /\ res[p].status = 201
    /\ trace[p].persisted

\* C21: when findByWallet throws during the user lookup of verifyToken, the
\* request is answered with a 5xx status and not with the authorization error
\* 'Invalid or expired token'.
C21_LookupFailureIsServerError ==
  \A p \in Procs :
    (pc[p] = "sent" /\ httpReq[p].lookupThrew)
      => /\ res[p].status \in 500..599
         /\ res[p].message # "Invalid or expired token"

\* C22: when the blockchain collaborator call throws during createSplit, the
\* call fails with an error to the caller, the failing step writes nothing to
\* the store, and the call has persisted no split and saved no stat update of
\* the creator.
C22_ChainFailureFailsCall ==
  /\ [](\A p \in Procs :
          (Done(p) /\ trace[p].chainCalled /\ ~blockchainResult[p].defined) =>
            /\ outcome[p].kind = "error"
            /\ ~trace[p].persisted
            /\ ~trace[p].statSaved)
  /\ [][\A p \in Procs :
          (pc[p] = "deploy" /\ pc'[p] = "done") =>
            /\ outcome'[p].kind = "error"
            /\ splits' = splits
            /\ users' = users]_vars

C22_Witness ==
  \E p \in Procs :
    /\ Done(p) /\ trace[p].chainCalled /\ ~blockchainResult[p].defined
    /\ outcome[p].msg = "Failed to deploy split contract"
    /\ creator[p] = NoUser

\* C25: a cancelled split stays cancelled under payments: no markParticipantPaid
\* call on a document with isCancelled = true changes its status, isCancelled
\* or isCompleted, even when the payment makes every participant paid.
C25_CancelledStaysCancelled ==
  [][(docCall'.op = "markParticipantPaid" /\ doc.isCancelled) =>
       /\ doc'.status = doc.status
       /\ doc'.isCancelled = doc.isCancelled
       /\ doc'.isCompleted = doc.isCompleted]_vars

\* C29: removeParticipant on a document whose only participant is the one named
\* fails with 'Cannot remove last participant from split' and leaves the
\* document the caller holds unchanged.
C29_FailedRemoveLeavesDocument ==
  [][(/\ docCall'.op = "removeParticipant"
      /\ docCall'.error = "Cannot remove last participant from split")
       => /\ doc' = doc
          /\ Len(doc'.participants) = 1]_vars

\* the request passes the checks createSplit makes before the id allocation
PassesChecks(r) ==
  /\ AddressFormat(toLowerCase(r.creatorAddress))
  /\ Len(r.participants) \in 1..MaxParticipants
  /\ Abs(SumAmounts(r.participants) - r.totalAmount) <= Tolerance
  /\ \A i \in 1..Len(r.participants) :
       AddressFormat(toLowerCase(r.participants[i].walletAddress))

RejectionErrors ==
  {"Invalid creator wallet address format", "At least one participant is required",
   "Maximum 50 participants allowed",
   "Total amount doesn't match sum of participant amounts",
   "Invalid participant wallet address", "Unable to generate unique split ID"}

\* C27: createSplit never invokes the blockchain collaborator for a request
\* that fails creator-address validation, participant-count validation, the
\* amount check, participant-address validation or id allocation: the
\* collaborator is called only for a request that passed the four checks and
\* whose allocation ended within its attempts, and a call rejected by one of
\* the five has made no blockchain call and leaves no blockchain result.
C27_RejectedBeforeChain ==
  \A p \in Procs :
    /\ trace[p].chainCalled =>
         /\ PassesChecks(req[p])
         /\ attempts[p] < MaxProbeAttempts
         /\ trace[p].lastProbeFree
    /\ (pc[p] # "idle" /\ ~PassesChecks(req[p])) =>
         /\ Done(p) /\ outcome[p].kind = "error"
         /\ ~trace[p].chainCalled
    /\ (Done(p) /\ outcome[p].msg \in RejectionErrors) =>
         /\ outcome[p].kind = "error"
         /\ ~trace[p].chainCalled
         /\ ~blockchainResult[p].defined

C27_Witness ==
  \E p \in Procs :
    /\ Done(p) /\ outcome[p].msg = "Unable to generate unique split ID"
    /\ PassesChecks(req[p])
    /\ ~trace[p].chainCalled

\* the flags of a split agree with its status
FlagsAgree(d) ==
  /\ d.isCompleted <=> (d.status = "completed")
  /\ d.isCancelled <=> (d.status = "cancelled")
  /\ ~(d.isCompleted /\ d.isCancelled)

\* C26: in every state reached by createSplit followed by any sequence of
\* updateStatus, markParticipantPaid, checkAndUpdateCompletion, addParticipant,
\* removeParticipant and sendReminder, the flags agree with the status, on the
\* document and on the stored split: isCompleted is true exactly when status =
\* completed, isCancelled exactly when status = cancelled, never both.
C26_FlagsAgreeWithStatus ==
  /\ FlagsAgree(doc)
  /\ \A s \in splits : FlagsAgree(s)

C26_Witness ==
  /\ doc.status = "pending" /\ doc.completedAt = 1 /\ doc.cancelledAt = 1
  /\ docCall.op = "sendReminder" /\ docCall.saved
  /\ doc \in splits

\* the participant with this wallet exists and has paid
Paid(d, w) ==
  \E i \in 1..Len(d.participants) :
    /\ toLowerCase(d.participants[i].walletAddress) = toLowerCase(w)
    /\ d.participants[i].hasPaid

\* the call failed and left the document and the store as they were
FailedUnchanged ==
  /\ docCall'.error # "" /\ ~docCall'.saved
  /\ doc' = doc
  /\ splits' = splits

\* C28: hasPaid is monotone: no operation on a split sets a participant's
\* hasPaid back to false or drops a paid participant, on the document or in the
\* store; markParticipantPaid on an already-paid participant, sendReminder to a
\* paid participant and removeParticipant of a paid participant each fail and
\* leave the split's participants unchanged.
C28_HasPaidMonotone ==
  [][/\ \A w \in OpsWallets :
          /\ Paid(doc, w) => Paid(doc', w)
          /\ \A s \in splits : Paid(s, w) =>
               \E t \in splits' : t.splitId = s.splitId /\ Paid(t, w)
          /\ (Paid(doc, w) /\ MarkParticipantPaid(w, PaymentHash)) => FailedUnchanged
          /\ (Paid(doc, w) /\ SendReminder(w)) => FailedUnchanged
          /\ (Paid(doc, w) /\ RemoveParticipant(w)) => FailedUnchanged]_vars

C28_Witness ==
  /\ docCall.op = "sendReminder"
  /\ docCall.error = "Cannot send reminder to participant who has already paid"
  /\ Paid(doc, Alice) /\ Paid(doc, Bob)
  /\ \E s \in splits : ~Paid(s, Bob)

\* C23: with first-match routing over the registered routes, an authenticated
\* GET /split/creator reaches the creator-listing handler and GET
\* /split/participant the participant-listing handler; neither is captured by
\* the /:splitId route and answered 'Invalid split ID'.
C23_ListingRoutesReachable ==
  \A p \in Procs :
    (/\ httpReq[p].handled
     /\ httpReq[p].method = "GET"
     /\ httpReq[p].path \in {"/creator", "/participant"})
      => /\ httpReq[p].path = "/creator" => httpReq[p].route = "creator"
         /\ httpReq[p].path = "/participant" => httpReq[p].route = "participant"
         /\ res[p].message # "Invalid split ID"

\* the two payers loaded the split before either saved, and each marked a
\* participant of its own, without error
PaidConcurrently ==
  /\ \A p \in Procs : pc[p] = "paid" /\ held[p].error = ""
  /\ \A p, q \in Procs :
       p # q => /\ toLowerCase(held[p].walletAddress) # toLowerCase(held[q].walletAddress)
                /\ ~Paid(held[p].loaded, held[q].walletAddress)

\* C24: when the last two unpaid participants of a split are marked paid
\* concurrently, each through its own loaded copy (load, markParticipantPaid,
\* save), then once both calls have completed the stored split has every
\* participant paid and status = completed.
C24_ConcurrentPaymentsComplete ==
  PaidConcurrently =>
    \A s \in splits : AllPaid(s) /\ s.status = "completed" /\ s.isCompleted

\* C30: graceful shutdown runs at most once: for any sequence and interleaving
\* of SIGTERM, SIGINT, uncaughtException and unhandledRejection events, the
\* database connection is closed at most once, a trigger received once
\* isShuttingDown is set changes nothing, the process never exits twice, and
\* once shutdown has begun the process exits.
C30_ShutdownOnce ==
  /\ [](server.closeCalls <= 1 /\ server.exits <= 1)
  /\ [][(server.isShuttingDown /\ server'.events # server.events) =>
          server' = [server EXCEPT !.events = server'.events]]_vars
  /\ (server.isShuttingDown ~> (server.exits = 1))

C30_Witness ==
  /\ server.exits = 1 /\ server.exitCode = 0
  /\ server.closeCalls = 1
  /\ Len(server.events) = MaxEvents
  /\ server.events[1] = "uncaughtException" /\ server.events[2] = "SIGTERM"

====
